---- MODULE Spec2Model ----
(***************************************************************************)
(* Model of src/model.py: the classification head (create_model), the     *)
(* metric aggregator (metric_fn) and the mode dispatcher (model_fn, the   *)
(* closure returned by model_fn_builder).                                 *)
(*                                                                         *)
(* Real-valued tensors are fixed-point integers: the integer v stands for *)
(* the real v / Scale.  Tensors are sequences (rows of a batch first).    *)
(* The outcome of the pretrained encoder (pooled_output) and of the       *)
(* dropout random draw (keep) are inputs of a call, chosen from bounded   *)
(* sets.                                                                   *)
(***************************************************************************)
EXTENDS Integers, Sequences, FiniteSets

VARIABLES
    pc,              \* "start" | "returned" (Spec), "build" | "eval" (SpecMetrics)
    params,          \* [output_weights, output_bias] : the head's variables
    call,            \* [mode, features, pooled_output, keep] : inputs of model_fn
    head,            \* the locals and the return value of create_model
    estimator_spec,  \* the EstimatorSpec model_fn returned
    invoked,         \* [calls, read]: collaborators model_fn called, feature keys it read
    eval_ops,        \* the mapping metric_fn returned to the evaluation pass
    locals,          \* the metrics' local variables (accumulators)
    history          \* what the evaluation pass has fed to the update ops

vars == <<pc, params, call, head, estimator_spec, invoked, eval_ops,
          locals, history>>

----------------------------------------------------------------------------
(* Bounds and constants *)

Scale == 100         \* fixed-point resolution: 1.0 is Scale
MaxBatch == 2        \* largest batch_size
MaxSteps == 2        \* most update steps of one evaluation pass
NumLabels == 2       \* num_labels given to model_fn_builder
HiddenSize == 2      \* hidden_size of the encoder's pooled_output
KeepProbNum == 9     \* keep_prob = 0.9 = KeepProbNum / KeepProbDen
KeepProbDen == 10

TRAIN == "train"
EVAL == "eval"
PREDICT == "infer"
ModeKeys == {TRAIN, EVAL, PREDICT}

\* Python's None, and a value that is not None.
None == [present |-> FALSE]
Some(v) == [present |-> TRUE, value |-> v]

----------------------------------------------------------------------------
(* Numeric helpers *)

RECURSIVE SumSeq(_)
SumSeq(s) == IF s = <<>> THEN 0 ELSE Head(s) + SumSeq(Tail(s))

\* The function f with domain 1..n as the sequence <<f[1], ..., f[n]>>: the
\* same value, with every entry computed once.
Tensor(f) == <<>> \o f

MaxOf(s) == CHOOSE m \in {s[k] : k \in DOMAIN s} : \A k \in DOMAIN s : s[k] <= m

\* Fixed-point product.
Mul(a, b) == (a * b) \div Scale

\* e^(t/Scale) * Scale for t >= 0, by its power series in fixed point.
RECURSIVE ExpSeries(_, _, _)
ExpSeries(t, term, n) ==
    IF term = 0 THEN 0
    ELSE term + ExpSeries(t, (term * t) \div (Scale * n), n + 1)

ExpPos(t) == ExpSeries(t, Scale, 1)

\* e^(x/Scale) * Scale for x <= 0.
Exp(x) == (Scale * Scale) \div ExpPos(-x)

\* ln(s/Scale) * Scale for s >= Scale: the largest y >= 0 with e^y <= s.
RECURSIVE LogSearch(_, _, _)
LogSearch(s, lo, hi) ==
    IF lo >= hi THEN lo
    ELSE LET mid == (lo + hi + 1) \div 2
         IN  IF ExpPos(mid) <= s THEN LogSearch(s, mid, hi)
             ELSE LogSearch(s, lo, mid - 1)

Log(s) == LogSearch(s, 0, s)

----------------------------------------------------------------------------
(* Tensor operations used by create_model *)

\* tf.nn.dropout(x, keep_prob): a kept unit is scaled by 1/keep_prob, a
\* dropped unit is 0.  keep[i][j] is the random draw for unit j of row i.
dropout(x, keep) ==
    Tensor([i \in 1..Len(x) |->
        Tensor([j \in DOMAIN x[i] |->
            IF keep[i][j] THEN (x[i][j] * KeepProbDen) \div KeepProbNum ELSE 0])])

\* tf.matmul(a, w, transpose_b=True): out[i][k] = sum_j a[i][j] * w[k][j]
matmul_transpose_b(a, w) ==
    Tensor([i \in 1..Len(a) |->
        Tensor([k \in 1..Len(w) |->
            SumSeq(Tensor([j \in 1..Len(w[k]) |-> Mul(a[i][j], w[k][j])]))])])

\* bias_add that leaves the bias out.
bias_add_dropped(x, b) ==
    Tensor([i \in 1..Len(x) |-> Tensor([k \in 1..Len(b) |-> x[i][k]])])

\* tf.nn.bias_add(x, b)
bias_add(x, b) ==
    Tensor([i \in 1..Len(x) |-> Tensor([k \in 1..Len(b) |-> x[i][k] + b[k]])])

\* tf.nn.log_softmax(logits, axis=-1): logits - max - log(sum(exp(logits - max)))
log_softmax_row(row) ==
    LET m == MaxOf(row)
        shifted == Tensor([k \in 1..Len(row) |-> row[k] - m])
        lse == Log(SumSeq(Tensor([k \in 1..Len(row) |-> Exp(shifted[k])])))
    IN  Tensor([k \in 1..Len(row) |-> shifted[k] - lse])

log_softmax(logits) == Tensor([i \in 1..Len(logits) |-> log_softmax_row(logits[i])])

\* tf.one_hot(labels, depth): row i has 1.0 at index labels[i] (0-based) and
\* 0.0 elsewhere; an index outside [0, depth) gives a row of zeros.
one_hot(labels, depth) ==
    Tensor([i \in 1..Len(labels) |->
        Tensor([k \in 1..depth |-> IF labels[i] = k - 1 THEN Scale ELSE 0])])

\* argmax_row that picks the smallest entry.
argmax_row_smallest(row) ==
    (CHOOSE k \in DOMAIN row :
        /\ \A k2 \in DOMAIN row : row[k] <= row[k2]
        /\ \A k2 \in DOMAIN row : row[k2] = row[k] => k <= k2) - 1

\* tf.argmax(x, axis=-1, output_type=tf.int32): the first index (0-based) of
\* the largest entry of each row; a tensor of shape [batch_size].
argmax_row(row) ==
    LET m == MaxOf(row)
    IN  (CHOOSE k \in DOMAIN row :
            /\ row[k] = m
            /\ \A k2 \in DOMAIN row : row[k2] = m => k <= k2) - 1

argmax(x) ==
    [shape |-> <<Len(x)>>, values |-> Tensor([i \in 1..Len(x) |-> argmax_row(x[i])])]

\* tf.squeeze(t): drops every dimension of size 1; the entries are unchanged.
squeeze(t) ==
    [shape |-> SelectSeq(t.shape, LAMBDA d : d # 1), values |-> t.values]

\* reduce_sum(a * b, axis=-1) without the negation.
reduce_sum_product_unnegated(a, b) ==
    Tensor([i \in 1..Len(a) |->
        SumSeq(Tensor([k \in 1..Len(a[i]) |-> Mul(a[i][k], b[i][k])]))])

\* -tf.reduce_sum(a * b, axis=-1)
neg_reduce_sum_product(a, b) ==
    Tensor([i \in 1..Len(a) |->
        -SumSeq(Tensor([k \in 1..Len(a[i]) |-> Mul(a[i][k], b[i][k])]))])

\* tf.reduce_mean(x): the exact quotient sum(x) / size(x), kept as a fraction.
reduce_mean(x) == [num |-> SumSeq(x), den |-> Len(x)]

----------------------------------------------------------------------------
(* create_model: the classification head *)

\* pooled_output is bert_outputs["pooled_output"], keep the dropout draw.
\* The result holds the locals of the "loss" scope and, in ret, the tuple
\* the function returns.
create_model(is_predicting, pooled_output, keep, labels, num_labels, output_weights, output_bias) ==
    LET dropout_layer == dropout(pooled_output, keep)
        logits == bias_add(matmul_transpose_b(dropout_layer, output_weights),
                           output_bias)
        log_probs == log_softmax(logits)
        one_hot_labels == one_hot(labels, num_labels)
        predicted_labels == squeeze(argmax(log_probs))
        per_example_loss == neg_reduce_sum_product(one_hot_labels, log_probs)
        loss == reduce_mean(per_example_loss)
    IN  [is_predicting |-> is_predicting,
         labels |-> labels,
         logits |-> logits,
         log_probs |-> log_probs,
         predicted_labels |-> predicted_labels,
         ret |-> IF is_predicting
                 THEN <<predicted_labels, log_probs>>
                 ELSE <<loss, predicted_labels, log_probs>>]

----------------------------------------------------------------------------
(* metric_fn: the metric aggregator *)

\* One tf.metrics call: the (value, update) pair of a streaming metric bound
\* to its two argument tensors.
metric_op(name, label_ids, predicted_labels) ==
    [metric |-> name, labels |-> label_ids, predictions |-> predicted_labels]

\* metric_fn whose mapping lacks the false_negatives entry.
metric_fn_short(label_ids, predicted_labels) ==
    [eval_accuracy |-> metric_op("tf.metrics.accuracy", label_ids, predicted_labels),
     f1_score |-> metric_op("tf.contrib.metrics.f1_score", label_ids, predicted_labels),
     auc |-> metric_op("tf.metrics.auc", label_ids, predicted_labels),
     precision |-> metric_op("tf.metrics.precision", label_ids, predicted_labels),
     recall |-> metric_op("tf.metrics.recall", label_ids, predicted_labels),
     true_positives |-> metric_op("tf.metrics.true_positives", label_ids, predicted_labels),
     true_negatives |-> metric_op("tf.metrics.true_negatives", label_ids, predicted_labels),
     false_positives |-> metric_op("tf.metrics.false_positives", label_ids, predicted_labels)]

metric_fn(label_ids, predicted_labels) ==
    [eval_accuracy |-> metric_op("tf.metrics.accuracy", label_ids, predicted_labels),
     f1_score |-> metric_op("tf.contrib.metrics.f1_score", label_ids, predicted_labels),
     auc |-> metric_op("tf.metrics.auc", label_ids, predicted_labels),
     precision |-> metric_op("tf.metrics.precision", label_ids, predicted_labels),
     recall |-> metric_op("tf.metrics.recall", label_ids, predicted_labels),
     true_positives |-> metric_op("tf.metrics.true_positives", label_ids, predicted_labels),
     true_negatives |-> metric_op("tf.metrics.true_negatives", label_ids, predicted_labels),
     false_positives |-> metric_op("tf.metrics.false_positives", label_ids, predicted_labels),
     false_negatives |-> metric_op("tf.metrics.false_negatives", label_ids, predicted_labels)]

----------------------------------------------------------------------------
(* model_fn: the mode dispatcher *)

\* bert.optimization.create_optimizer(loss, learning_rate, num_train_steps,
\* num_warmup_steps, use_tpu=False): the training step that minimises loss.
create_optimizer(loss) == [op |-> "train_op", minimizes |-> loss]

\* EstimatorSpec that forgets the loss it is given.
EstimatorSpec_lossless(mode, predictions, loss, train_op, eval_metric_ops) ==
    [mode |-> mode, predictions |-> predictions, loss |-> None,
     train_op |-> train_op, eval_metric_ops |-> eval_metric_ops]

\* tf.estimator.EstimatorSpec: a named tuple whose unset fields are None.
EstimatorSpec(mode, predictions, loss, train_op, eval_metric_ops) ==
    [mode |-> mode, predictions |-> predictions, loss |-> loss,
     train_op |-> train_op, eval_metric_ops |-> eval_metric_ops]

\* Variants of model_fn, each a different dispatch:
\*   "one_bundle"          one EstimatorSpec with loss, train_op and metrics
\*                         for TRAIN and EVAL alike
\*   "metrics_in_eval"     metric_fn called on the EVAL branch only
\*   "optimizer_in_train"  create_optimizer called on the TRAIN branch only
\*   "predict_unlabelled"  PREDICT neither reads label_ids nor passes labels
model_fn_variant(features, mode, pooled_output, keep, p, v) ==
    LET is_predicting == (mode = PREDICT)
        unlabelled == is_predicting /\ v = "predict_unlabelled"
        label_ids == IF unlabelled THEN <<>> ELSE features.label_ids
        read == {"input_ids", "input_mask", "segment_ids"}
                    \cup (IF unlabelled THEN {} ELSE {"label_ids"})
        created == create_model(is_predicting, pooled_output, keep, label_ids,
                                NumLabels, p.output_weights, p.output_bias)
    IN  IF ~is_predicting
        THEN LET loss == created.ret[1]
                 predicted_labels == created.ret[2]
                 train_op == create_optimizer(loss)
                 eval_metrics == metric_fn(label_ids, predicted_labels)
                 with_optimizer == v # "optimizer_in_train" \/ mode = TRAIN
                 with_metrics == v # "metrics_in_eval" \/ mode = EVAL
                 calls == <<"create_model">>
                          \o (IF with_optimizer THEN <<"create_optimizer">> ELSE <<>>)
                          \o (IF with_metrics THEN <<"metric_fn">> ELSE <<>>)
             IN  IF v = "one_bundle"
                 THEN [estimator_spec |->
                          EstimatorSpec(mode, None, Some(loss), Some(train_op),
                                        Some(eval_metrics)),
                       invoked |-> calls, read |-> read, head |-> created]
                 ELSE IF mode = TRAIN
                 THEN [estimator_spec |->
                          EstimatorSpec(mode, None, Some(loss), Some(train_op), None),
                       invoked |-> calls, read |-> read, head |-> created]
                 ELSE [estimator_spec |->
                          EstimatorSpec(mode, None, Some(loss), None, Some(eval_metrics)),
                       invoked |-> calls, read |-> read, head |-> created]
        ELSE LET predicted_labels == created.ret[1]
                 log_probs == created.ret[2]
                 predictions == [probabilities |-> log_probs,
                                 labels |-> predicted_labels]
             IN  [estimator_spec |->
                     EstimatorSpec(mode, Some(predictions), None, None, None),
                  invoked |-> <<"create_model">>, read |-> read, head |-> created]

model_fn_one_bundle(features, mode, pooled_output, keep, p) ==
    model_fn_variant(features, mode, pooled_output, keep, p, "one_bundle")

model_fn_metrics_in_eval(features, mode, pooled_output, keep, p) ==
    model_fn_variant(features, mode, pooled_output, keep, p, "metrics_in_eval")

model_fn_optimizer_in_train(features, mode, pooled_output, keep, p) ==
    model_fn_variant(features, mode, pooled_output, keep, p, "optimizer_in_train")

model_fn_predict_unlabelled(features, mode, pooled_output, keep, p) ==
    model_fn_variant(features, mode, pooled_output, keep, p, "predict_unlabelled")

\* The result holds the EstimatorSpec returned (estimator_spec), the
\* collaborators called in order (invoked), the feature keys read (read) and
\* the head's call (head).
model_fn(features, mode, pooled_output, keep, p) ==
    LET label_ids == features.label_ids
        read == {"input_ids", "input_mask", "segment_ids", "label_ids"}
        is_predicting == (mode = PREDICT)
        created == create_model(is_predicting, pooled_output, keep, label_ids,
                                NumLabels, p.output_weights, p.output_bias)
    IN  IF ~is_predicting
        THEN LET loss == created.ret[1]
                 predicted_labels == created.ret[2]
                 train_op == create_optimizer(loss)
                 eval_metrics == metric_fn(label_ids, predicted_labels)
                 calls == <<"create_model", "create_optimizer", "metric_fn">>
             IN  IF mode = TRAIN
                 THEN [estimator_spec |->
                          EstimatorSpec(mode, None, Some(loss), Some(train_op), None),
                       invoked |-> calls, read |-> read, head |-> created]
                 ELSE [estimator_spec |->
                          EstimatorSpec(mode, None, Some(loss), None, Some(eval_metrics)),
                       invoked |-> calls, read |-> read, head |-> created]
        ELSE LET predicted_labels == created.ret[1]
                 log_probs == created.ret[2]
                 predictions == [probabilities |-> log_probs,
                                 labels |-> predicted_labels]
             IN  [estimator_spec |->
                     EstimatorSpec(mode, Some(predictions), None, None, None),
                  invoked |-> <<"create_model">>, read |-> read, head |-> created]

----------------------------------------------------------------------------
(* The streaming metrics behind the mapping of metric_fn *)

\* The local variables each metric creates, as local_variables_initializer
\* leaves them.  auc and f1_score keep a confusion matrix per threshold; for
\* predictions in {0, 1} every interior threshold holds the same one.
ZeroConfusion == [tp |-> 0, fn |-> 0, tn |-> 0, fp |-> 0]

ZeroLocals ==
    [eval_accuracy |-> [total |-> 0, count |-> 0],
     f1_score |-> ZeroConfusion,
     auc |-> ZeroConfusion,
     precision |-> [true_positives |-> 0, false_positives |-> 0],
     recall |-> [true_positives |-> 0, false_negatives |-> 0],
     true_positives |-> [count |-> 0],
     true_negatives |-> [count |-> 0],
     false_positives |-> [count |-> 0],
     false_negatives |-> [count |-> 0]]

\* The examples of a batch, each a pair <<label, prediction>>.
Examples(label_ids, predicted_labels) ==
    Tensor([i \in 1..Len(label_ids) |-> <<label_ids[i], predicted_labels.values[i]>>])

\* Labels and predictions are cast to bool by the confusion counts: 0 is
\* negative, anything else positive.
IsCorrect(e) == e[1] = e[2]
IsTruePositive(e) == e[1] # 0 /\ e[2] # 0
IsTrueNegative(e) == e[1] = 0 /\ e[2] = 0
IsFalsePositive(e) == e[1] = 0 /\ e[2] # 0
IsFalseNegative(e) == e[1] # 0 /\ e[2] = 0

\* update_ops that keeps only the last batch's counts.
update_ops_last_batch(loc, label_ids, predicted_labels) ==
    LET ex == Examples(label_ids, predicted_labels)
    IN
    [eval_accuracy |-> [total |-> Cardinality({i \in DOMAIN ex : IsCorrect(ex[i])}),
                        count |-> Len(label_ids)],
     f1_score |-> loc.f1_score,
     auc |-> loc.auc,
     precision |-> loc.precision,
     recall |-> loc.recall,
     true_positives |-> [count |-> Cardinality({i \in DOMAIN ex : IsTruePositive(ex[i])})],
     true_negatives |-> [count |-> Cardinality({i \in DOMAIN ex : IsTrueNegative(ex[i])})],
     false_positives |-> [count |-> Cardinality({i \in DOMAIN ex : IsFalsePositive(ex[i])})],
     false_negatives |-> [count |-> Cardinality({i \in DOMAIN ex : IsFalseNegative(ex[i])})]]

\* One run of every update op on a batch: each metric adds the batch's counts
\* to its own local variables.
update_ops(loc, label_ids, predicted_labels) ==
    LET ex == Examples(label_ids, predicted_labels)
        correct == Cardinality({i \in DOMAIN ex : IsCorrect(ex[i])})
        tp == Cardinality({i \in DOMAIN ex : IsTruePositive(ex[i])})
        tn == Cardinality({i \in DOMAIN ex : IsTrueNegative(ex[i])})
        fp == Cardinality({i \in DOMAIN ex : IsFalsePositive(ex[i])})
        fn == Cardinality({i \in DOMAIN ex : IsFalseNegative(ex[i])})
        confusion(c) == [tp |-> c.tp + tp, fn |-> c.fn + fn,
                         tn |-> c.tn + tn, fp |-> c.fp + fp]
    IN  [eval_accuracy |-> [total |-> loc.eval_accuracy.total + correct,
                            count |-> loc.eval_accuracy.count + Len(label_ids)],
         f1_score |-> confusion(loc.f1_score),
         auc |-> confusion(loc.auc),
         precision |-> [true_positives |-> loc.precision.true_positives + tp,
                        false_positives |-> loc.precision.false_positives + fp],
         recall |-> [true_positives |-> loc.recall.true_positives + tp,
                     false_negatives |-> loc.recall.false_negatives + fn],
         true_positives |-> [count |-> loc.true_positives.count + tp],
         true_negatives |-> [count |-> loc.true_negatives.count + tn],
         false_positives |-> [count |-> loc.false_positives.count + fp],
         false_negatives |-> [count |-> loc.false_negatives.count + fn]]

\* The quotient a metric reports: 0 when the denominator is 0.
safe_div(num, den) == IF den > 0 THEN [num |-> num, den |-> den]
                      ELSE [num |-> 0, den |-> 1]

accuracy_value(loc) == safe_div(loc.eval_accuracy.total, loc.eval_accuracy.count)
precision_value(loc) ==
    safe_div(loc.precision.true_positives,
             loc.precision.true_positives + loc.precision.false_positives)
recall_value(loc) ==
    safe_div(loc.recall.true_positives,
             loc.recall.true_positives + loc.recall.false_negatives)
false_positives_value(loc) == loc.false_positives.count
false_negatives_value(loc) == loc.false_negatives.count
true_positives_value(loc) == loc.true_positives.count
true_negatives_value(loc) == loc.true_negatives.count

----------------------------------------------------------------------------
(* Inputs *)

BatchSizes == 1..MaxBatch
PooledVals == {0, Scale}
WeightVals == {-Scale, Scale}
BiasVals == {0, Scale}
LabelVals == 0..(NumLabels - 1)

\* The head's variables: a weight matrix [num_labels, hidden_size] and a bias.
\* log_softmax is unchanged when the same amount is added to every logit, so
\* the rows of the matrix are drawn to sum to 0 and the bias to have a 0 entry.
ParamSet ==
    {p \in [output_weights : [1..NumLabels -> [1..HiddenSize -> WeightVals]],
            output_bias : [1..NumLabels -> BiasVals]] :
        /\ \A j \in 1..HiddenSize :
              SumSeq(Tensor([k \in 1..NumLabels |-> p.output_weights[k][j]])) = 0
        /\ \E k \in 1..NumLabels : p.output_bias[k] = 0}

\* Pooled vectors of a batch with the dropout draw of each unit.  A unit that
\* is 0 is 0 kept or dropped, so its draw is fixed to kept.
PooledSet(b) == [1..b -> [1..HiddenSize -> PooledVals]]
KeepSet(b, pooled) ==
    {k \in [1..b -> [1..HiddenSize -> BOOLEAN]] :
        \A i \in 1..b : \A j \in 1..HiddenSize : pooled[i][j] = 0 => k[i][j]}
LabelSet(b) == [1..b -> LabelVals]

\* A well-formed features mapping for a batch of b examples of one token.
Features(b, label_ids) ==
    [input_ids |-> [i \in 1..b |-> <<0>>],
     input_mask |-> [i \in 1..b |-> <<1>>],
     segment_ids |-> [i \in 1..b |-> <<0>>],
     label_ids |-> label_ids]

\* Predicted-label tensors as create_model returns them: squeezed.
PredictedSet(b) ==
    {squeeze([shape |-> <<b>>, values |-> Tensor([i \in 1..b |-> v[i]])]) :
        v \in [1..b -> LabelVals]}

NoTrace == [calls |-> <<>>, read |-> {}]
NoHistory == [steps |-> 0, examples |-> 0, all_equal |-> TRUE]

----------------------------------------------------------------------------
(* Spec: one call of model_fn on the inputs drawn by Init *)

Init ==
    /\ pc = "start"
    /\ params \in ParamSet
    /\ \E b \in BatchSizes : \E x \in PooledSet(b) : \E k \in KeepSet(b, x) :
          \E l \in LabelSet(b) : \E m \in ModeKeys :
             call = [mode |-> m, features |-> Features(b, l),
                     pooled_output |-> x, keep |-> k]
    /\ head = None
    /\ estimator_spec = None
    /\ invoked = NoTrace
    /\ eval_ops = None
    /\ locals = ZeroLocals
    /\ history = NoHistory

ModelFn ==
    /\ pc = "start"
    /\ \E r \in {model_fn(call.features, call.mode, call.pooled_output,
                         call.keep, params)} :
           /\ estimator_spec' = Some(r.estimator_spec)
           /\ invoked' = [calls |-> r.invoked, read |-> r.read]
           /\ head' = Some(r.head)
    /\ pc' = "returned"
    /\ UNCHANGED <<params, call, eval_ops, locals, history>>

Next == ModelFn

Spec == Init /\ [][Next]_vars

----------------------------------------------------------------------------
(* SpecMetrics: metric_fn builds the metrics, an evaluation pass runs them *)

InitMetrics ==
    /\ pc = "build"
    /\ params \in {p \in ParamSet :
                      /\ \A k \in 1..NumLabels : p.output_bias[k] = 0
                      /\ \A j \in 1..HiddenSize : p.output_weights[1][j] = Scale}
    /\ call = None
    /\ head = None
    /\ estimator_spec = None
    /\ invoked = NoTrace
    /\ eval_ops = None
    /\ locals = ZeroLocals
    /\ history = NoHistory

\* metric_fn is called on the label and predicted-label tensors of the graph.
MetricFn ==
    /\ pc = "build"
    /\ \E b \in BatchSizes : \E l \in LabelSet(b) : \E q \in PredictedSet(b) :
          eval_ops' = Some(metric_fn(l, q))
    /\ pc' = "eval"
    /\ UNCHANGED <<params, call, head, estimator_spec, invoked, locals, history>>

\* One step of the evaluation pass: the update ops run on one batch.
UpdateOps ==
    /\ pc = "eval"
    /\ history.steps < MaxSteps
    /\ \E b \in BatchSizes : \E l \in LabelSet(b) : \E q \in PredictedSet(b) :
          /\ locals' = update_ops(locals, l, q)
          /\ history' = [steps |-> history.steps + 1,
                         examples |-> history.examples + b,
                         all_equal |-> history.all_equal
                                       /\ \A i \in 1..b : q.values[i] = l[i]]
    /\ UNCHANGED <<pc, params, call, head, estimator_spec, invoked, eval_ops>>

\* A new evaluation pass initialises the local variables again.
NewEvaluation ==
    /\ pc = "eval"
    /\ history.steps > 0
    /\ locals' = ZeroLocals
    /\ history' = NoHistory
    /\ UNCHANGED <<pc, params, call, head, estimator_spec, invoked, eval_ops>>

NextMetrics == MetricFn \/ UpdateOps \/ NewEvaluation

SpecMetrics == InitMetrics /\ [][NextMetrics]_vars

----------------------------------------------------------------------------
(* Properties of model_fn and create_model, checked under Spec *)

Returned == pc = "returned"
Mode == call.mode
Bundle == estimator_spec.value
HeadCall == head.value
BatchSize == Len(call.features.label_ids)

\* The tuple create_model returned, by position.
ReturnedLoss == HeadCall.ret[1]
ReturnedPredictedLabels ==
    IF Len(HeadCall.ret) = 2 THEN HeadCall.ret[1] ELSE HeadCall.ret[2]
ReturnedLogProbs ==
    IF Len(HeadCall.ret) = 2 THEN HeadCall.ret[2] ELSE HeadCall.ret[3]

Called(f) == \E n \in DOMAIN invoked.calls : invoked.calls[n] = f

\* C1: the bundle model_fn returns has no loss when the mode is PREDICT and
\* has a loss when the mode is TRAIN or EVAL.
C1_LossFieldByMode ==
    Returned =>
        /\ Mode = PREDICT => ~Bundle.loss.present
        /\ Mode \in {TRAIN, EVAL} => Bundle.loss.present

C1_Witness ==
    /\ Returned
    /\ Mode = PREDICT
    /\ ~Bundle.loss.present
    /\ Bundle.predictions.present

\* C2: the TRAIN bundle carries a loss and a training step and no metrics
\* bundle; the EVAL bundle carries a loss and the metrics bundle and no
\* training step.
C2_TrainAndEvalBundles ==
    Returned =>
        /\ Mode = TRAIN =>
              /\ Bundle.loss.present
              /\ Bundle.train_op.present
              /\ ~Bundle.eval_metric_ops.present
        /\ Mode = EVAL =>
              /\ Bundle.loss.present
              /\ Bundle.eval_metric_ops.present
              /\ ~Bundle.train_op.present

C2_Witness ==
    /\ Returned
    /\ Mode = EVAL
    /\ Bundle.eval_metric_ops.present
    /\ ~Bundle.train_op.present

\* C3 as stated: model_fn does not invoke metric_fn when the mode is PREDICT
\* or TRAIN.
C3_MetricFnOnlyInEval ==
    (Returned /\ Mode \in {PREDICT, TRAIN}) => ~Called("metric_fn")

\* C3 amended: model_fn invokes metric_fn exactly when the mode is not
\* PREDICT, in TRAIN as in EVAL, and only the EVAL bundle carries the metrics
\* it built.
C3_MetricFnOutsidePredict ==
    Returned =>
        /\ Called("metric_fn") <=> Mode # PREDICT
        /\ Bundle.eval_metric_ops.present <=> Mode = EVAL

C3_Witness ==
    /\ Returned
    /\ Mode = TRAIN
    /\ Called("metric_fn")
    /\ ~Bundle.eval_metric_ops.present

\* C4 as stated: in PREDICT mode create_model is invoked with
\* is_predicting = true, no label value is read from the features mapping and
\* none is passed to the head.
C4_PredictWithoutLabels ==
    (Returned /\ Mode = PREDICT) =>
        /\ HeadCall.is_predicting
        /\ "label_ids" \notin invoked.read
        /\ HeadCall.labels = <<>>

\* C4 amended: in PREDICT mode create_model is invoked with
\* is_predicting = true; label_ids is read from the features mapping and passed
\* to the head as in the other modes, and the head returns only
\* (predicted_labels, log_probs), which make up the predictions.
C4_PredictPassesLabelIds ==
    Returned =>
        /\ HeadCall.is_predicting <=> Mode = PREDICT
        /\ "label_ids" \in invoked.read
        /\ HeadCall.labels = call.features.label_ids
        /\ Mode = PREDICT =>
              /\ Len(HeadCall.ret) = 2
              /\ Bundle.predictions.value.labels = HeadCall.predicted_labels
              /\ Bundle.predictions.value.probabilities = HeadCall.log_probs

C4_Witness ==
    /\ Returned
    /\ Mode = PREDICT
    /\ HeadCall.is_predicting
    /\ \E i \in 1..BatchSize : HeadCall.labels[i] = 1

\* C6: for every example of the batch the predicted label create_model
\* returns is the index of the largest entry of the example's row of
\* log_probs, in every mode; for a batch of one example the squeeze leaves a
\* scalar that is that example's label.
C6_PredictedLabelIsArgmax ==
    Returned =>
        LET q == ReturnedPredictedLabels
            lp == ReturnedLogProbs
        IN  /\ Len(lp) = BatchSize
            /\ Len(q.values) = BatchSize
            /\ q.shape = (IF BatchSize = 1 THEN <<>> ELSE <<BatchSize>>)
            /\ \A i \in 1..BatchSize :
                  /\ q.values[i] \in 0..(NumLabels - 1)
                  /\ \A k \in 1..NumLabels : lp[i][k] <= lp[i][q.values[i] + 1]

C6_Witness ==
    /\ Returned
    /\ BatchSize = 1
    /\ ReturnedPredictedLabels.shape = <<>>
    /\ ReturnedPredictedLabels.values[1] = 1
    /\ ReturnedLogProbs[1][1] < ReturnedLogProbs[1][2]

ZeroPooled(i) == \A j \in 1..HiddenSize : call.pooled_output[i][j] = 0

\* The first index (0-based) of the largest entry of the bias.
ArgmaxBias ==
    CHOOSE k \in 0..(NumLabels - 1) :
        /\ \A k2 \in 1..NumLabels : params.output_bias[k2] <= params.output_bias[k + 1]
        /\ \A k2 \in 1..k : params.output_bias[k2] < params.output_bias[k + 1]

\* C7: for an example whose pooled vector is all zeros the logits equal the
\* bias and the predicted label is argmax(bias), whatever the weights, the
\* bias and the dropout draw.
C7_ZeroPooledGivesBias ==
    Returned =>
        \A i \in 1..BatchSize :
            ZeroPooled(i) =>
                /\ \A k \in 1..NumLabels :
                      HeadCall.logits[i][k] = params.output_bias[k]
                /\ ReturnedPredictedLabels.values[i] = ArgmaxBias

C7_Witness ==
    /\ Returned
    /\ BatchSize > 1
    /\ ZeroPooled(1)
    /\ ~ZeroPooled(2)
    /\ params.output_bias[1] < params.output_bias[2]
    /\ ReturnedPredictedLabels.values[1] = 1

\* The log-probability of example i at its true label.
LogProbAtLabel(i) == ReturnedLogProbs[i][call.features.label_ids[i] + 1]

\* C9: with labels supplied (TRAIN, EVAL) the loss create_model returns is the
\* batch mean of the per-example negated log-probability at the true label;
\* it is never negative, and it is 0 exactly when every example's
\* log-probability at its true label is 0.
C9_LossIsMeanCrossEntropy ==
    (Returned /\ Mode # PREDICT) =>
        /\ Len(HeadCall.ret) = 3
        /\ ReturnedLoss.den = BatchSize
        /\ ReturnedLoss.num =
              SumSeq(Tensor([i \in 1..BatchSize |-> -LogProbAtLabel(i)]))
        /\ ReturnedLoss.num >= 0
        /\ ReturnedLoss.num = 0 <=> \A i \in 1..BatchSize : LogProbAtLabel(i) = 0

C9_Witness ==
    /\ Returned
    /\ Mode = TRAIN
    /\ BatchSize > 1
    /\ ReturnedLoss.num > 0
    /\ LogProbAtLabel(1) = 0
    /\ LogProbAtLabel(2) < 0

\* C10 as stated: model_fn invokes the optimizer constructor only when the
\* mode is TRAIN.
C10_OptimizerOnlyInTrain ==
    (Returned /\ Mode # TRAIN) => ~Called("create_optimizer")

\* C10 amended: model_fn invokes the optimizer constructor exactly when the
\* mode is not PREDICT, in EVAL as in TRAIN, and only the TRAIN bundle carries
\* the training step it built.
C10_OptimizerOutsidePredict ==
    Returned =>
        /\ Called("create_optimizer") <=> Mode # PREDICT
        /\ Bundle.train_op.present <=> Mode = TRAIN

C10_Witness ==
    /\ Returned
    /\ Mode = EVAL
    /\ Called("create_optimizer")
    /\ ~Bundle.train_op.present

----------------------------------------------------------------------------
(* Properties of metric_fn and its metrics, checked under SpecMetrics *)

\* The metric held under each key of the mapping.
MetricUnderKey ==
    [eval_accuracy |-> "tf.metrics.accuracy",
     f1_score |-> "tf.contrib.metrics.f1_score",
     auc |-> "tf.metrics.auc",
     precision |-> "tf.metrics.precision",
     recall |-> "tf.metrics.recall",
     true_positives |-> "tf.metrics.true_positives",
     true_negatives |-> "tf.metrics.true_negatives",
     false_positives |-> "tf.metrics.false_positives",
     false_negatives |-> "tf.metrics.false_negatives"]

C8_MatchingBatchesScorePerfect ==
    (pc = "eval" /\ history.steps > 0 /\ history.all_equal) =>
        /\ accuracy_value(locals).num = accuracy_value(locals).den
        /\ accuracy_value(locals).den = history.examples
        /\ false_positives_value(locals) = 0
        /\ false_negatives_value(locals) = 0

C8_Witness ==
    /\ pc = "eval"
    /\ history.steps > 1
    /\ history.all_equal
    /\ history.examples > 2
    /\ true_positives_value(locals) > 1
    /\ true_negatives_value(locals) > 0
    /\ accuracy_value(locals).num = history.examples

====
